---- MODULE Spec2Model ----
(***************************************************************************)
(* QR attendance service (src/main.py, src/database.py): the ledger of     *)
(* issued QR codes and scan records, the in-memory notification mailbox,   *)
(* and the HTTP handlers that change them.                                 *)
(*                                                                         *)
(* Time is counted in whole seconds since the start of day 0 (UTC).  The   *)
(* server clock is read with datetime.utcnow(); consecutive reads return   *)
(* strictly increasing values.  Employees are named by their directory id; *)
(* an EmployeeInfo is represented by that id (its name is the id).         *)
(***************************************************************************)
EXTENDS Integers, FiniteSets, Sequences, TLC

\* ------------------------------------------------------------ bounds ----
MaxQrCodes == 2        \* rows ever inserted into qr_codes
MaxRegistros == 2      \* rows ever inserted into registros_escaneo
MaxDay == 1            \* calendar days 0..MaxDay are observed

\* ------------------------------------------------- program constants ----
SecondsPerDay == 86400 \* datetime.combine(hoy, min.time()) .. max.time()
MinDwell == 60         \* seconds between entry and exit (record_scan)

\* ---------------------------------------------------- input domains ----
Employees == {1, 2}
Role(e) == IF e = 1 THEN "ADMIN" ELSE "USER"
\* Instants at which the clock is read: on day 0 around the dwell limit and
\* one dwell later, then midnight of each following day.
Instants ==
    {0, MinDwell - 1, MinDwell, 2 * MinDwell}
        \cup {d * SecondsPerDay : d \in 1..MaxDay}
\* Outcome of one HTTP call to the directory service.
Net == {"ok", "http_error", "timeout", "offline"}
\* Worker processes serving requests against the one database.
Workers == {1, 2}

None == 0              \* no row / no employee (ids start at 1)
Null == -1             \* a NULL timestamp
NoEvent == [type |-> "NONE", empleado_name |-> None, timestamp |-> Null]

VARIABLES
    qr_codes,          \* table qr_codes: id -> row
    qr_seq,            \* next value of the qr_codes.id sequence
    registros_escaneo, \* table registros_escaneo: id -> row
    reg_seq,           \* next value of the registros_escaneo.id sequence
    last_scan_events,  \* the mailbox: recipient id -> pending event
    directory,         \* employees the directory service currently holds
    clock,             \* the last value datetime.utcnow() returned
    last,              \* the latest request and its response
    workers            \* requests in flight, one per worker process

vars == <<qr_codes, qr_seq, registros_escaneo, reg_seq, last_scan_events,
          directory, clock, last, workers>>

ledger == <<qr_codes, qr_seq, registros_escaneo, reg_seq>>

\* ------------------------------------------------ directory client ----
\* As get_employee_by_id, with every answer of the service taken for an
\* employee (the status code is not looked at).
get_employee_by_id_any_status(empleado_id, net) ==
    IF net \in {"ok", "http_error"} THEN empleado_id ELSE None

get_employee_by_id(empleado_id, net) ==
    IF net = "ok" /\ empleado_id \in directory THEN empleado_id ELSE None

get_all_employees(net) ==
    IF net = "ok" THEN directory ELSE {}

\* What one call can return, over every outcome of the HTTP exchange.
EmployeeLookups(empleado_id) == {get_employee_by_id(empleado_id, net) : net \in Net}
EmployeeListings == {get_all_employees(net) : net \in Net}

\* As check_backend_status, with every outcome reported as connected.
check_backend_status_connected(net) == "CONNECTED"

check_backend_status(net) ==
    CASE net = "ok" -> "CONNECTED"
      [] net = "http_error" -> "ERROR_500"
      [] net = "timeout" -> "TIMEOUT"
      [] OTHER -> "OFFLINE"

\* ------------------------------------------------------- helpers ----
\* As generate_qr_code, with the placeholder rendered for every id.
generate_qr_code_placeholder(qr_id) == [tag |-> "temp", data |-> None]

generate_qr_code(qr_id) == [tag |-> "qr", data |-> qr_id]

date(t) == t \div SecondsPerDay

\* As ExistingQrs, with the filter on activo inverted.
ExistingQrsInactive(e) ==
    {q \in DOMAIN qr_codes :
        qr_codes[q].empleado_id = e /\ ~qr_codes[q].activo}

\* filter(QRCode.empleado_id == e, QRCode.activo == True); .first() takes
\* any one of the rows.
ExistingQrs(e) ==
    {q \in DOMAIN qr_codes :
        qr_codes[q].empleado_id = e /\ qr_codes[q].activo}

\* As RegistrosHoy, with the day's upper limit at the start of the day.
RegistrosHoyEmptyWindow(qr_id, ahora) ==
    {r \in DOMAIN registros_escaneo :
        /\ registros_escaneo[r].qr_id = qr_id
        /\ registros_escaneo[r].fecha >= date(ahora) * SecondsPerDay
        /\ registros_escaneo[r].fecha < date(ahora) * SecondsPerDay}

\* As RegistrosHoy, with the rows of every code.
RegistrosHoyAnyCode(qr_id, ahora) ==
    {r \in DOMAIN registros_escaneo :
        /\ registros_escaneo[r].fecha >= date(ahora) * SecondsPerDay
        /\ registros_escaneo[r].fecha < date(ahora) * SecondsPerDay + SecondsPerDay}

\* RegistroEscaneo rows of a code whose fecha lies in the day of `ahora`.
\* Every whole-second instant of a day is before that day's max.time()
\* (23:59:59.999999), so the upper limit is the start of the next day.
RegistrosHoy(qr_id, ahora) ==
    {r \in DOMAIN registros_escaneo :
        /\ registros_escaneo[r].qr_id = qr_id
        /\ registros_escaneo[r].fecha >= date(ahora) * SecondsPerDay
        /\ registros_escaneo[r].fecha < date(ahora) * SecondsPerDay + SecondsPerDay}

\* RegistroEscaneo rows with empleado_id = e (the scan history query)
EmployeeScans(e) ==
    {r \in DOMAIN registros_escaneo : registros_escaneo[r].empleado_id = e}

\* f extended with one more row
Insert(f, id, row) == [x \in DOMAIN f \cup {id} |-> IF x = id THEN row ELSE f[x]]

\* As Delete, with every row kept.
DeleteNone(f, ids) == f

\* f without the rows in ids
Delete(f, ids) == [x \in DOMAIN f \ ids |-> f[x]]

\* A worker with no request in hand.
Idle == [pc |-> "idle", qr_id |-> None, employee |-> None, ahora |-> Null,
         registro_hoy |-> None, hora_entrada |-> Null, hora_salida |-> Null,
         scan_type |-> "", user_id |-> None, event |-> NoEvent]

\* The response to a request: the handler, its argument, the status it
\* answers with, the clock value it read, the ids of the rows it returns and
\* the event it delivers.  notified and displaced are what record_scan logs
\* of its notifications: the recipients it wrote to, and those among them
\* whose pending event it replaced.
Response(op, arg, st, now, ret, event) ==
    [op |-> op, arg |-> arg, status |-> st, now |-> now, ret |-> ret,
     event |-> event, notified |-> {}, displaced |-> {}]

\* As Admins, with every listed user taken for an administrator.
AdminsEveryone(all_users) == all_users

\* The administrators among the listed users
Admins(all_users) == {u \in all_users : Role(u) = "ADMIN"}

\* The response of a successful scan
ScanResponse(qr_id, scan_type, ahora, registro, all_users) ==
    [Response("scan", qr_id, scan_type, ahora, {registro}, NoEvent) EXCEPT
        !.notified = Admins(all_users),
        !.displaced = {u \in Admins(all_users) : last_scan_events[u] # NoEvent}]

\* ------------------------------------------------------- reporting ----
\* duracion = hora_salida - hora_entrada, in seconds.
\* horas = int(duracion.total_seconds() // 3600)
horas(duracion) == duracion \div 3600

\* As minutos, rounded to the nearest minute.
minutos_rounded(duracion) == ((duracion % 3600) + 30) \div 60

\* minutos = int((duracion.total_seconds() % 3600) // 60)
minutos(duracion) == (duracion % 3600) \div 60

\* The row of a record as the listings return it: es_entrada tells an open
\* record, duracion_jornada is f"{horas}h {minutos}m" for a closed record
\* and None for an open one.
escaneo_to_response(id, escaneo) ==
    [id |-> id,
     es_entrada |-> escaneo.hora_salida = Null,
     duracion_jornada |->
        IF escaneo.hora_salida # Null
        THEN <<horas(escaneo.hora_salida - escaneo.hora_entrada), "h ",
               minutos(escaneo.hora_salida - escaneo.hora_entrada), "m">>
        ELSE <<>>]

\* One record rendered for a listing.
render_escaneo(r) ==
    /\ r \in DOMAIN registros_escaneo
    /\ UNCHANGED <<ledger, last_scan_events, directory, clock, workers>>
    /\ last' = Response("render", r, "OK", Null,
                        {escaneo_to_response(r, registros_escaneo[r])}, NoEvent)

\* ----------------------------------------------- issuance manager ----
\* As NewQr, with the row inserted inactive.
NewQrInactive(empleado_id, id) ==
    [empleado_id |-> empleado_id, qr_code_base64 |-> generate_qr_code(id),
     activo |-> FALSE]

\* A new QRCode row as it stands when the handler returns: inserted with
\* the payload "temp", then updated with the payload rendered from its id.
NewQr(empleado_id, id) ==
    [empleado_id |-> empleado_id, qr_code_base64 |-> generate_qr_code(id),
     activo |-> TRUE]

\* As Deactivate, with the assignment left out.
DeactivateNothing(qrs, q) == qrs

\* As Deactivate, with the row removed instead of switched off.
DeactivateByRemoval(qrs, q) == [x \in DOMAIN qrs \ {q} |-> qrs[x]]

\* existing_qr.activo = False
Deactivate(qrs, q) == [qrs EXCEPT ![q].activo = FALSE]

\* POST /qr/generate
generate_qr(empleado_id) ==
    \E employee \in EmployeeLookups(empleado_id) :
    /\ UNCHANGED <<registros_escaneo, reg_seq, last_scan_events, directory, clock,
                   workers>>
    /\ IF employee = None
       THEN /\ UNCHANGED <<qr_codes, qr_seq>>
            /\ last' = Response("generate", empleado_id, "EmployeeNotFound",
                                Null, {}, NoEvent)
       ELSE IF ExistingQrs(empleado_id) # {}
       THEN \E existing_qr \in ExistingQrs(empleado_id) :
            /\ UNCHANGED <<qr_codes, qr_seq>>
            /\ last' = Response("generate", empleado_id, "OK", Null,
                                {existing_qr}, NoEvent)
       ELSE /\ qr_seq <= MaxQrCodes
            /\ qr_codes' = Insert(qr_codes, qr_seq, NewQr(empleado_id, qr_seq))
            /\ qr_seq' = qr_seq + 1
            /\ last' = Response("generate", empleado_id, "CREATED", Null,
                                {qr_seq}, NoEvent)

\* POST /qr/login -> regenerate_qr_for_employee
regenerate_qr_for_employee(empleado_id) ==
    \E employee \in EmployeeLookups(empleado_id) :
    /\ UNCHANGED <<registros_escaneo, reg_seq, last_scan_events, directory, clock,
                   workers>>
    /\ IF employee = None
       THEN /\ UNCHANGED <<qr_codes, qr_seq>>
            /\ last' = Response("login", empleado_id, "EmployeeNotFound",
                                Null, {}, NoEvent)
       ELSE /\ qr_seq <= MaxQrCodes
            /\ \/ /\ ExistingQrs(empleado_id) = {}
                  /\ qr_codes' = Insert(qr_codes, qr_seq,
                                        NewQr(empleado_id, qr_seq))
               \/ \E existing_qr \in ExistingQrs(empleado_id) :
                     qr_codes' = Insert(Deactivate(qr_codes, existing_qr),
                                        qr_seq, NewQr(empleado_id, qr_seq))
            /\ qr_seq' = qr_seq + 1
            /\ last' = Response("login", empleado_id, "CREATED", Null,
                                {qr_seq}, NoEvent)

\* As ToggleActivo, with the code switched off whatever it was.
ToggleOff(qrs, q) == [qrs EXCEPT ![q].activo = FALSE]

\* qr_code.activo = not qr_code.activo
ToggleActivo(qrs, q) == [qrs EXCEPT ![q].activo = ~qrs[q].activo]

\* PUT /admin/qr/{qr_id}/toggle
toggle_qr_status(qr_id) ==
    /\ UNCHANGED <<qr_seq, registros_escaneo, reg_seq, last_scan_events,
                   directory, clock, workers>>
    /\ IF qr_id \notin DOMAIN qr_codes
       THEN /\ UNCHANGED qr_codes
            /\ last' = Response("toggle", qr_id, "CodeNotFound", Null, {}, NoEvent)
       ELSE /\ qr_codes' = ToggleActivo(qr_codes, qr_id)
            /\ last' = Response("toggle", qr_id, "OK", Null, {qr_id}, NoEvent)

\* DELETE /admin/qr/{qr_id}
delete_qr(qr_id) ==
    /\ UNCHANGED <<qr_seq, reg_seq, last_scan_events, directory, clock, workers>>
    /\ IF qr_id \notin DOMAIN qr_codes
       THEN /\ UNCHANGED <<qr_codes, registros_escaneo>>
            /\ last' = Response("delete", qr_id, "CodeNotFound", Null, {}, NoEvent)
       ELSE LET escaneos == {r \in DOMAIN registros_escaneo :
                                registros_escaneo[r].qr_id = qr_id} IN
            /\ registros_escaneo' = Delete(registros_escaneo, escaneos)
            /\ qr_codes' = Delete(qr_codes, {qr_id})
            /\ last' = Response("delete", qr_id, "OK", Null, escaneos, NoEvent)

\* POST /admin/cleanup/orphaned-qrs
cleanup_orphaned_qrs ==
    \E backend_status \in {check_backend_status(net) : net \in Net},
       backend_employee_ids \in EmployeeListings :
    LET orphaned_qrs == {q \in DOMAIN qr_codes :
                            /\ qr_codes[q].empleado_id \notin backend_employee_ids
                            /\ qr_codes[q].activo}
    IN
    /\ UNCHANGED <<qr_seq, registros_escaneo, reg_seq, last_scan_events,
                   directory, clock, workers>>
    /\ IF backend_status # "CONNECTED"
       THEN /\ UNCHANGED qr_codes
            /\ last' = Response("cleanup", None, "DirectoryUnavailable", Null,
                                {}, NoEvent)
       ELSE /\ qr_codes' = [q \in DOMAIN qr_codes |->
                              IF q \in orphaned_qrs
                              THEN [qr_codes[q] EXCEPT !.activo = FALSE]
                              ELSE qr_codes[q]]
            /\ last' = Response("cleanup", None, "OK", Null, orphaned_qrs, NoEvent)

\* GET /admin/empleado/{empleado_id}/escaneos
get_employee_scans(empleado_id) ==
    \E employee \in EmployeeLookups(empleado_id) :
    /\ UNCHANGED <<ledger, last_scan_events, directory, clock, workers>>
    /\ IF employee = None
       THEN last' = Response("history", empleado_id, "EmployeeNotFound", Null,
                             {}, NoEvent)
       ELSE last' = Response("history", empleado_id, "OK", Null,
                             EmployeeScans(empleado_id), NoEvent)


\* ------------------------------------------------ notification mailbox ----
ScanEvent(scan_type, employee, ahora) ==
    [type |-> scan_type, empleado_name |-> employee, timestamp |-> ahora]

\* As Post, with every slot emptied when no administrator is listed.
PostFlushing(events, all_users, event) ==
    [u \in DOMAIN events |->
        IF Admins(all_users) = {} THEN NoEvent
        ELSE IF u \in Admins(all_users) THEN event ELSE events[u]]

\* last_scan_events[admin.id] = {...} for every listed user with role ADMIN
Post(events, all_users, event) ==
    [u \in DOMAIN events |->
        IF u \in Admins(all_users) THEN event ELSE events[u]]

\* As Pop, with a read that leaves the slot as it is (get for pop).
PopKeep(events, user_id) == events

\* last_scan_events.pop(user_id, None): the slot after the pop
Pop(events, user_id) == [events EXCEPT ![user_id] = NoEvent]

\* GET /events/last-scan/{user_id}
get_last_scan_event(user_id) ==
    /\ UNCHANGED <<ledger, directory, clock, workers>>
    /\ last_scan_events' = Pop(last_scan_events, user_id)
    /\ last' = Response("poll", user_id, "OK", Null, {},
                        last_scan_events[user_id])

\* Polls in flight at once.  Within one process the requests are coroutines
\* on one event loop that share last_scan_events; the handler has no await,
\* and the step between its pop and its return is kept apart here so that
\* other requests may run in between.

\* event = last_scan_events.pop(user_id, None)
poll_take(w, user_id) ==
    /\ workers[w].pc = "idle"
    /\ UNCHANGED <<ledger, directory, clock, last>>
    /\ last_scan_events' = Pop(last_scan_events, user_id)
    /\ workers' = [workers EXCEPT ![w] =
            [Idle EXCEPT !.pc = "deliver", !.user_id = user_id,
                         !.event = last_scan_events[user_id]]]

\* return event (None when the slot was empty)
poll_return(w) ==
    /\ workers[w].pc = "deliver"
    /\ UNCHANGED <<ledger, last_scan_events, directory, clock>>
    /\ last' = Response("poll", workers[w].user_id, "OK", Null, {},
                        workers[w].event)
    /\ workers' = [workers EXCEPT ![w] = Idle]

\* --------------------------------------------------- scan state machine ----
\* As TooSoon, with the limit itself refused, and with no limit at all.
TooSoonInclusive(ahora, hora_entrada) == ahora - hora_entrada <= MinDwell
TooSoonNever(ahora, hora_entrada) == FALSE

\* tiempo_desde_entrada.total_seconds() < 60
TooSoon(ahora, hora_entrada) == ahora - hora_entrada < MinDwell

\* As NewRegistro, with the employee of the record left empty.
NewRegistroAnonymous(qr_id, empleado_id, ahora) ==
    [qr_id |-> qr_id, empleado_id |-> None, fecha |-> ahora,
     hora_entrada |-> ahora, hora_salida |-> Null]

NewRegistro(qr_id, empleado_id, ahora) ==
    [qr_id |-> qr_id, empleado_id |-> empleado_id, fecha |-> ahora,
     hora_entrada |-> ahora, hora_salida |-> Null]

\* As SetSalida, with the update applied to every row of the table.
SetSalidaAll(regs, r, ahora) ==
    [x \in DOMAIN regs |-> [regs[x] EXCEPT !.hora_salida = ahora]]

\* As SetSalida, with the exit refused before the dwell time has passed.
SetSalidaAfterDwell(regs, r, ahora) ==
    IF ahora - regs[r].hora_entrada < MinDwell
    THEN regs
    ELSE [regs EXCEPT ![r].hora_salida = ahora]

\* registro.hora_salida = ahora
SetSalida(regs, r, ahora) == [regs EXCEPT ![r].hora_salida = ahora]

\* As activo, with the flag never looked at.
activo_ignored(qr_id) == TRUE

\* qr_code.activo of the row with this id
activo(qr_id) == qr_codes[qr_id].activo

\* As Reject, with the open rows of the table closed on the way out.
RejectClosing(op, arg, st, now) ==
    /\ registros_escaneo' =
           [r \in DOMAIN registros_escaneo |->
               [registros_escaneo[r] EXCEPT !.hora_salida =
                   IF @ = Null THEN registros_escaneo[r].hora_entrada ELSE @]]
    /\ UNCHANGED <<qr_codes, qr_seq, reg_seq, last_scan_events>>
    /\ last' = Response(op, arg, st, now, {}, NoEvent)

\* As Reject, with the mailbox emptied on the way out.
RejectClearing(op, arg, st, now) ==
    /\ UNCHANGED ledger
    /\ last_scan_events' = [u \in DOMAIN last_scan_events |-> NoEvent]
    /\ last' = Response(op, arg, st, now, {}, NoEvent)

\* A rejected request: an HTTPException, nothing written.
Reject(op, arg, st, now) ==
    /\ UNCHANGED <<ledger, last_scan_events>>
    /\ last' = Response(op, arg, st, now, {}, NoEvent)

\* POST /qr/{qr_id}/scan
record_scan(qr_id) ==
    /\ UNCHANGED <<directory, workers>>
    /\ IF qr_id \notin DOMAIN qr_codes
       THEN Reject("scan", qr_id, "CodeNotFound", Null) /\ UNCHANGED clock
       ELSE IF ~activo(qr_id)
       THEN Reject("scan", qr_id, "CodeInactive", Null) /\ UNCHANGED clock
       ELSE \E employee \in EmployeeLookups(qr_codes[qr_id].empleado_id) :
       IF employee = None
       THEN Reject("scan", qr_id, "EmployeeNotFound", Null) /\ UNCHANGED clock
       ELSE \E ahora \in Instants :
       /\ ahora > clock
       /\ clock' = ahora
       /\ IF RegistrosHoy(qr_id, ahora) # {}
          THEN \E registro_hoy \in RegistrosHoy(qr_id, ahora) :
               IF registros_escaneo[registro_hoy].hora_salida = Null
               THEN IF TooSoon(ahora, registros_escaneo[registro_hoy].hora_entrada)
                    THEN Reject("scan", qr_id, "TooSoonForExit", ahora)
                    ELSE \E all_users \in EmployeeListings :
                         /\ registros_escaneo' =
                                SetSalida(registros_escaneo, registro_hoy, ahora)
                         /\ UNCHANGED <<qr_codes, qr_seq, reg_seq>>
                         /\ last_scan_events' =
                                Post(last_scan_events, all_users,
                                     ScanEvent("SALIDA", employee, ahora))
                         /\ last' = ScanResponse(qr_id, "SALIDA", ahora,
                                                 registro_hoy, all_users)
               ELSE Reject("scan", qr_id, "AlreadyCompletedToday", ahora)
          ELSE \E all_users \in EmployeeListings :
               /\ reg_seq <= MaxRegistros
               /\ registros_escaneo' =
                      Insert(registros_escaneo, reg_seq,
                             NewRegistro(qr_id, qr_codes[qr_id].empleado_id, ahora))
               /\ reg_seq' = reg_seq + 1
               /\ UNCHANGED <<qr_codes, qr_seq>>
               /\ last_scan_events' =
                      Post(last_scan_events, all_users,
                           ScanEvent("ENTRADA", employee, ahora))
               /\ last' = ScanResponse(qr_id, "ENTRADA", ahora, reg_seq,
                                       all_users)

\* POST /admin/registro/{registro_id}/forzar-salida
force_exit(registro_id) ==
    /\ UNCHANGED <<directory, workers>>
    /\ IF registro_id \notin DOMAIN registros_escaneo
       THEN Reject("force", registro_id, "NotFound", Null) /\ UNCHANGED clock
       ELSE IF registros_escaneo[registro_id].hora_salida # Null
       THEN Reject("force", registro_id, "AlreadyClosed", Null) /\ UNCHANGED clock
       ELSE \E ahora \in Instants :
            /\ ahora > clock
            /\ clock' = ahora
            /\ registros_escaneo' = SetSalida(registros_escaneo, registro_id, ahora)
            /\ UNCHANGED <<qr_codes, qr_seq, reg_seq, last_scan_events>>
            /\ last' = Response("force", registro_id, "OK", ahora,
                                {registro_id}, NoEvent)

\* The HTTP status code of a response: status_code of the HTTPException
\* raised, 200 for an answer.
HttpStatus(st) ==
    CASE st \in {"CodeNotFound", "EmployeeNotFound"} -> 404
      [] st \in {"CodeInactive", "TooSoonForExit", "AlreadyCompletedToday"} -> 400
      [] st = "InternalError" -> 500
      [] OTHER -> 200

\* POST /tokens/{qr_id}/record_scan: record_scan called inside
\* try ... except ValueError ... except Exception.  An HTTPException raised
\* by record_scan is an Exception and not a ValueError, so whatever
\* record_scan rejects leaves this handler as a 500 whose detail is the text
\* of the original exception.  An answer of record_scan is reshaped
\* (accion = ENTRADA if es_entrada else SALIDA).
legacy_record_scan(qr_id) ==
    /\ UNCHANGED <<directory, workers>>
    /\ IF qr_id \notin DOMAIN qr_codes
       THEN Reject("legacy", qr_id, "InternalError", Null) /\ UNCHANGED clock
       ELSE IF ~activo(qr_id)
       THEN Reject("legacy", qr_id, "InternalError", Null) /\ UNCHANGED clock
       ELSE \E employee \in EmployeeLookups(qr_codes[qr_id].empleado_id) :
       IF employee = None
       THEN Reject("legacy", qr_id, "InternalError", Null) /\ UNCHANGED clock
       ELSE \E ahora \in Instants :
       /\ ahora > clock
       /\ clock' = ahora
       /\ IF RegistrosHoy(qr_id, ahora) # {}
          THEN \E registro_hoy \in RegistrosHoy(qr_id, ahora) :
               IF registros_escaneo[registro_hoy].hora_salida = Null
               THEN IF TooSoon(ahora, registros_escaneo[registro_hoy].hora_entrada)
                    THEN Reject("legacy", qr_id, "InternalError", ahora)
                    ELSE \E all_users \in EmployeeListings :
                         /\ registros_escaneo' =
                                SetSalida(registros_escaneo, registro_hoy, ahora)
                         /\ UNCHANGED <<qr_codes, qr_seq, reg_seq>>
                         /\ last_scan_events' =
                                Post(last_scan_events, all_users,
                                     ScanEvent("SALIDA", employee, ahora))
                         /\ last' = [ScanResponse(qr_id, "SALIDA", ahora,
                                                  registro_hoy, all_users)
                                        EXCEPT !.op = "legacy"]
               ELSE Reject("legacy", qr_id, "InternalError", ahora)
          ELSE \E all_users \in EmployeeListings :
               /\ reg_seq <= MaxRegistros
               /\ registros_escaneo' =
                      Insert(registros_escaneo, reg_seq,
                             NewRegistro(qr_id, qr_codes[qr_id].empleado_id, ahora))
               /\ reg_seq' = reg_seq + 1
               /\ UNCHANGED <<qr_codes, qr_seq>>
               /\ last_scan_events' =
                      Post(last_scan_events, all_users,
                           ScanEvent("ENTRADA", employee, ahora))
               /\ last' = [ScanResponse(qr_id, "ENTRADA", ahora, reg_seq,
                                        all_users)
                              EXCEPT !.op = "legacy"]

\* As validate_qr, with the scan performed instead of previewed.
validate_qr_scanning(qr_id) == record_scan(qr_id)

\* GET /qr/{qr_id}/validate.  For an unknown id the handler builds its
\* answer from qr_code (None) and from employee (not yet assigned) and so
\* raises instead of answering.
validate_qr(qr_id) ==
    /\ UNCHANGED <<ledger, last_scan_events, directory, workers>>
    /\ IF qr_id \notin DOMAIN qr_codes
       THEN /\ UNCHANGED clock
            /\ last' = Response("validate", qr_id, "InternalError", Null, {}, NoEvent)
       ELSE \E employee \in EmployeeLookups(qr_codes[qr_id].empleado_id) :
       IF employee = None
       THEN /\ UNCHANGED clock
            /\ last' = Response("validate", qr_id, "INVALID", Null, {}, NoEvent)
       ELSE \E ahora \in Instants :
       /\ ahora > clock
       /\ clock' = ahora
       /\ IF RegistrosHoy(qr_id, ahora) # {}
          THEN \E registro_hoy \in RegistrosHoy(qr_id, ahora) :
               last' = Response("validate", qr_id,
                           IF registros_escaneo[registro_hoy].hora_salida = Null
                           THEN "VALID_SALIDA" ELSE "VALID_COMPLETADO",
                           ahora, {registro_hoy}, NoEvent)
          ELSE last' = Response("validate", qr_id, "VALID_ENTRADA", ahora, {},
                                NoEvent)

\* ------------------------------------------- record_scan, step by step ----
\* Each request runs in its own database session (get_db); several worker
\* processes share the database, which holds no uniqueness constraint on
\* (qr_id, day) (database.py, RegistroEscaneo) and is never locked by the
\* handler.  Between two statements of one request the others may run.

\* Checks of the code and of its employee, up to the read of the clock.
scan_begin(w, qr_id) ==
    /\ workers[w].pc = "idle"
    /\ UNCHANGED <<directory, clock>>
    /\ IF qr_id \notin DOMAIN qr_codes
       THEN Reject("scan", qr_id, "CodeNotFound", Null) /\ UNCHANGED workers
       ELSE IF ~activo(qr_id)
       THEN Reject("scan", qr_id, "CodeInactive", Null) /\ UNCHANGED workers
       ELSE \E employee \in EmployeeLookups(qr_codes[qr_id].empleado_id) :
       IF employee = None
       THEN Reject("scan", qr_id, "EmployeeNotFound", Null) /\ UNCHANGED workers
       ELSE /\ workers' = [workers EXCEPT ![w] =
                    [Idle EXCEPT !.pc = "read", !.qr_id = qr_id,
                                 !.employee = employee]]
            /\ UNCHANGED <<ledger, last_scan_events, last>>

\* ahora = datetime.utcnow() and the query for today's record.
scan_read(w) ==
    /\ workers[w].pc = "read"
    /\ UNCHANGED <<ledger, last_scan_events, directory, last>>
    /\ \E ahora \in Instants :
       /\ ahora > clock
       /\ clock' = ahora
       /\ \/ /\ RegistrosHoy(workers[w].qr_id, ahora) = {}
             /\ workers' = [workers EXCEPT ![w].pc = "write", ![w].ahora = ahora]
          \/ \E r \in RegistrosHoy(workers[w].qr_id, ahora) :
                workers' = [workers EXCEPT
                    ![w].pc = "write", ![w].ahora = ahora,
                    ![w].registro_hoy = r,
                    ![w].hora_entrada = registros_escaneo[r].hora_entrada,
                    ![w].hora_salida = registros_escaneo[r].hora_salida]

\* The decision on the row as it was read, and the commit of the write.
scan_write(w) ==
    LET me == workers[w] IN
    /\ me.pc = "write"
    /\ UNCHANGED <<directory, clock>>
    /\ IF me.registro_hoy # None
       THEN IF me.hora_salida = Null
            THEN IF TooSoon(me.ahora, me.hora_entrada)
                 THEN /\ Reject("scan", me.qr_id, "TooSoonForExit", me.ahora)
                      /\ workers' = [workers EXCEPT ![w] = Idle]
                 ELSE /\ registros_escaneo' =
                            SetSalida(registros_escaneo, me.registro_hoy, me.ahora)
                      /\ workers' = [workers EXCEPT ![w].pc = "notify",
                                                    ![w].scan_type = "SALIDA"]
                      /\ UNCHANGED <<qr_codes, qr_seq, reg_seq, last_scan_events,
                                     last>>
            ELSE /\ Reject("scan", me.qr_id, "AlreadyCompletedToday", me.ahora)
                 /\ workers' = [workers EXCEPT ![w] = Idle]
       ELSE /\ reg_seq <= MaxRegistros
            /\ registros_escaneo' =
                   Insert(registros_escaneo, reg_seq,
                          NewRegistro(me.qr_id, me.employee, me.ahora))
            /\ reg_seq' = reg_seq + 1
            /\ workers' = [workers EXCEPT ![w].pc = "notify",
                                          ![w].scan_type = "ENTRADA",
                                          ![w].registro_hoy = reg_seq]
            /\ UNCHANGED <<qr_codes, qr_seq, last_scan_events, last>>

\* The listing of the administrators, their notification, the response.
scan_notify(w) ==
    LET me == workers[w] IN
    /\ me.pc = "notify"
    /\ UNCHANGED <<ledger, directory, clock>>
    /\ \E all_users \in EmployeeListings :
          /\ last_scan_events' =
                 Post(last_scan_events, all_users,
                      ScanEvent(me.scan_type, me.employee, me.ahora))
          /\ last' = ScanResponse(me.qr_id, me.scan_type, me.ahora,
                                  me.registro_hoy, all_users)
    /\ workers' = [workers EXCEPT ![w] = Idle]

\* ---------------------------- regenerate_qr_for_employee, step by step ----
\* The handler commits three times: the deactivation of the active code, the
\* insert of the new row with the payload "temp", and the payload rendered
\* from the new id.  Each commit is visible to the other sessions at once.
\* A worker in these steps keeps the employee in .employee and, once
\* inserted, the id of the new row in .qr_id.

\* Requests that have passed the employee check and have not inserted yet.
LoginsPending ==
    {w \in Workers : workers[w].pc \in {"deactivate", "insert"}}

\* new_qr as inserted: QRCode(empleado_id, qr_code_base64="temp", activo=True)
TempQr(empleado_id) ==
    [empleado_id |-> empleado_id,
     qr_code_base64 |-> [tag |-> "temp", data |-> None], activo |-> TRUE]

\* The employee check.
login_begin(w, empleado_id) ==
    /\ workers[w].pc = "idle"
    /\ UNCHANGED <<ledger, last_scan_events, directory, clock>>
    /\ \E employee \in EmployeeLookups(empleado_id) :
       IF employee = None
       THEN /\ last' = Response("login", empleado_id, "EmployeeNotFound",
                                Null, {}, NoEvent)
            /\ UNCHANGED workers
       ELSE /\ qr_seq + Cardinality(LoginsPending) <= MaxQrCodes
            /\ workers' = [workers EXCEPT ![w] =
                    [Idle EXCEPT !.pc = "deactivate", !.employee = empleado_id]]
            /\ UNCHANGED last

\* The query for the active code, existing_qr.activo = False, db.commit().
login_deactivate(w) ==
    /\ workers[w].pc = "deactivate"
    /\ UNCHANGED <<qr_seq, registros_escaneo, reg_seq, last_scan_events,
                   directory, clock, last>>
    /\ workers' = [workers EXCEPT ![w].pc = "insert"]
    /\ \/ /\ ExistingQrs(workers[w].employee) = {}
          /\ UNCHANGED qr_codes
       \/ \E existing_qr \in ExistingQrs(workers[w].employee) :
             qr_codes' = Deactivate(qr_codes, existing_qr)

\* db.add(new_qr), db.commit(), db.refresh(new_qr)
login_insert(w) ==
    /\ workers[w].pc = "insert"
    /\ UNCHANGED <<registros_escaneo, reg_seq, last_scan_events, directory,
                   clock, last>>
    /\ qr_codes' = Insert(qr_codes, qr_seq, TempQr(workers[w].employee))
    /\ qr_seq' = qr_seq + 1
    /\ workers' = [workers EXCEPT ![w].pc = "update", ![w].qr_id = qr_seq]

\* new_qr.qr_code_base64 = generate_qr_code(new_qr.id), db.commit(), and the
\* response.
login_update(w) ==
    LET me == workers[w] IN
    /\ me.pc = "update"
    /\ UNCHANGED <<qr_seq, registros_escaneo, reg_seq, last_scan_events,
                   directory, clock>>
    /\ qr_codes' = [qr_codes EXCEPT
                      ![me.qr_id].qr_code_base64 = generate_qr_code(me.qr_id)]
    /\ last' = Response("login", me.employee, "CREATED", Null, {me.qr_id},
                        NoEvent)
    /\ workers' = [workers EXCEPT ![w] = Idle]

\* The request ends between two commits: a commit raises (the connection to
\* the database is lost) or the worker is stopped.  What was committed
\* stays.
login_fail(w) ==
    /\ workers[w].pc \in {"deactivate", "insert", "update"}
    /\ UNCHANGED <<ledger, last_scan_events, directory, clock>>
    /\ last' = Response("login", workers[w].employee, "InternalError", Null,
                        {}, NoEvent)
    /\ workers' = [workers EXCEPT ![w] = Idle]

\* ------------------------------------------ generate_qr, step by step ----
\* The handler commits twice: the insert of the new row with the payload
\* "temp", and the payload rendered from the new id.

\* The employee check.
generate_begin(w, empleado_id) ==
    /\ workers[w].pc = "idle"
    /\ UNCHANGED <<ledger, last_scan_events, directory, clock>>
    /\ \E employee \in EmployeeLookups(empleado_id) :
       IF employee = None
       THEN /\ last' = Response("generate", empleado_id, "EmployeeNotFound",
                                Null, {}, NoEvent)
            /\ UNCHANGED workers
       ELSE /\ workers' = [workers EXCEPT ![w] =
                    [Idle EXCEPT !.pc = "g_insert", !.employee = empleado_id]]
            /\ UNCHANGED last

\* The query for the active code, which is returned if there is one;
\* otherwise db.add(db_qr), db.commit(), db.refresh(db_qr).
generate_insert(w) ==
    LET me == workers[w] IN
    /\ me.pc = "g_insert"
    /\ UNCHANGED <<registros_escaneo, reg_seq, last_scan_events, directory,
                   clock>>
    /\ IF ExistingQrs(me.employee) # {}
       THEN \E existing_qr \in ExistingQrs(me.employee) :
            /\ UNCHANGED <<qr_codes, qr_seq>>
            /\ last' = Response("generate", me.employee, "OK", Null,
                                {existing_qr}, NoEvent)
            /\ workers' = [workers EXCEPT ![w] = Idle]
       ELSE /\ qr_seq + Cardinality(LoginsPending) <= MaxQrCodes
            /\ qr_codes' = Insert(qr_codes, qr_seq, TempQr(me.employee))
            /\ qr_seq' = qr_seq + 1
            /\ workers' = [workers EXCEPT ![w].pc = "g_update",
                                          ![w].qr_id = qr_seq]
            /\ UNCHANGED last

\* db_qr.qr_code_base64 = generate_qr_code(db_qr.id), db.commit(), and the
\* response.
generate_update(w) ==
    LET me == workers[w] IN
    /\ me.pc = "g_update"
    /\ UNCHANGED <<qr_seq, registros_escaneo, reg_seq, last_scan_events,
                   directory, clock>>
    /\ qr_codes' = [qr_codes EXCEPT
                      ![me.qr_id].qr_code_base64 = generate_qr_code(me.qr_id)]
    /\ last' = Response("generate", me.employee, "CREATED", Null, {me.qr_id},
                        NoEvent)
    /\ workers' = [workers EXCEPT ![w] = Idle]

\* ------------------------------------------------ directory service ----
\* An employee is added to or removed from the external directory.
DirectoryJoin(e) ==
    /\ e \notin directory
    /\ directory' = directory \cup {e}
    /\ UNCHANGED <<ledger, last_scan_events, clock, last, workers>>

DirectoryLeave(e) ==
    /\ e \in directory
    /\ directory' = directory \ {e}
    /\ UNCHANGED <<ledger, last_scan_events, clock, last, workers>>

Init ==
    /\ qr_codes = <<>>
    /\ qr_seq = 1
    /\ registros_escaneo = <<>>
    /\ reg_seq = 1
    /\ last_scan_events = [u \in Employees |-> NoEvent]
    /\ directory = Employees
    /\ clock = Null
    /\ last = Response("none", None, "OK", Null, {}, NoEvent)
    /\ workers = [w \in Workers |-> Idle]

QrIds == 1..MaxQrCodes
RegIds == 1..MaxRegistros

\* The issuance manager alone: generate and login, with a changing directory.
NextIssue ==
    \/ \E e \in Employees : generate_qr(e)
    \/ \E e \in Employees : regenerate_qr_for_employee(e)
    \/ \E e \in Employees : DirectoryJoin(e)
    \/ \E e \in Employees : DirectoryLeave(e)

SpecIssue == Init /\ [][NextIssue]_vars

\* Every handler that writes qr_codes.
NextCodes ==
    \/ \E e \in Employees : generate_qr(e)
    \/ \E e \in Employees : regenerate_qr_for_employee(e)
    \/ \E q \in QrIds : toggle_qr_status(q)
    \/ \E q \in QrIds : delete_qr(q)
    \/ cleanup_orphaned_qrs
    \/ \E e \in Employees : DirectoryJoin(e)
    \/ \E e \in Employees : DirectoryLeave(e)

SpecCodes == Init /\ [][NextCodes]_vars

\* The scan state machine with the handlers that issue, rotate and switch
\* codes and force exits.
NextScan ==
    \/ \E e \in Employees : generate_qr(e)
    \/ \E e \in Employees : regenerate_qr_for_employee(e)
    \/ \E q \in QrIds : toggle_qr_status(q)
    \/ \E q \in QrIds : record_scan(q)
    \/ \E r \in RegIds : force_exit(r)

SpecScan == Init /\ [][NextScan]_vars

\* The scan state machine with every handler that deactivates a code:
\* rotation, toggle and the cleanup of orphaned codes.
NextLedger ==
    \/ \E e \in Employees : generate_qr(e)
    \/ \E e \in Employees : regenerate_qr_for_employee(e)
    \/ \E q \in QrIds : toggle_qr_status(q)
    \/ cleanup_orphaned_qrs
    \/ \E q \in QrIds : record_scan(q)
    \/ \E r \in RegIds : force_exit(r)

SpecLedger == Init /\ [][NextLedger]_vars

\* The preview of a scan next to the scan itself, with codes switched off
\* and on.
NextValidate ==
    \/ \E e \in Employees : generate_qr(e)
    \/ \E q \in QrIds : toggle_qr_status(q)
    \/ \E q \in QrIds : record_scan(q)
    \/ \E q \in QrIds : validate_qr(q)

SpecValidate == Init /\ [][NextValidate]_vars

\* Scans and the polling of their notifications.
NextMail ==
    \/ \E e \in Employees : generate_qr(e)
    \/ \E q \in QrIds : record_scan(q)
    \/ \E u \in Employees : get_last_scan_event(u)

SpecMail == Init /\ [][NextMail]_vars

\* Scans and their notifications, with a directory that changes.
NextNotify ==
    \/ \E e \in Employees : generate_qr(e)
    \/ \E q \in QrIds : record_scan(q)
    \/ \E u \in Employees : get_last_scan_event(u)
    \/ \E e \in Employees : DirectoryJoin(e)
    \/ \E e \in Employees : DirectoryLeave(e)

SpecNotify == Init /\ [][NextNotify]_vars

\* Scans, and polls that overlap.
NextPoll ==
    \/ \E e \in Employees : generate_qr(e)
    \/ \E q \in QrIds : record_scan(q)
    \/ \E w \in Workers, u \in Employees : poll_take(w, u)
    \/ \E w \in Workers : poll_return(w)

SpecPoll == Init /\ [][NextPoll]_vars

\* Codes issued, rotated, scanned and purged.
NextPurge ==
    \/ \E e \in Employees : generate_qr(e)
    \/ \E e \in Employees : regenerate_qr_for_employee(e)
    \/ \E q \in QrIds : record_scan(q)
    \/ \E q \in QrIds : delete_qr(q)

SpecPurge == Init /\ [][NextPurge]_vars

\* The legacy scanner: codes issued and switched, scans through the alias.
NextLegacy ==
    \/ \E e \in Employees : generate_qr(e)
    \/ \E q \in QrIds : toggle_qr_status(q)
    \/ \E q \in QrIds : legacy_record_scan(q)

SpecLegacy == Init /\ [][NextLegacy]_vars

\* Scans of codes that are switched off and on while employees leave the
\* directory.
NextOrder ==
    \/ \E e \in Employees : generate_qr(e)
    \/ \E q \in QrIds : toggle_qr_status(q)
    \/ \E q \in QrIds : record_scan(q)
    \/ \E e \in Employees : DirectoryLeave(e)

SpecOrder == Init /\ [][NextOrder]_vars

\* Every handler that writes or reads the ledger, except the purge.
NextHistory ==
    \/ \E e \in Employees : generate_qr(e)
    \/ \E e \in Employees : regenerate_qr_for_employee(e)
    \/ \E q \in QrIds : toggle_qr_status(q)
    \/ \E q \in QrIds : record_scan(q)
    \/ \E r \in RegIds : force_exit(r)
    \/ \E q \in QrIds : validate_qr(q)
    \/ cleanup_orphaned_qrs

SpecHistory == Init /\ [][NextHistory]_vars

\* The rendering of a record, over records of chosen durations: one code of
\* employee 1 with one record, entered at one of Entradas and either open or
\* closed one of Duraciones seconds later.
Entradas == {0, MinDwell - 1, MinDwell}
Duraciones ==
    {0, 1, 59, 60, 61, 119, 120, 3599, 3600, 3601, 3659, 3660, 3661, 7199,
     7200, 7325, 86399, 86400, 90061}

InitDuration ==
    /\ qr_codes = Insert(<<>>, 1, NewQr(1, 1))
    /\ qr_seq = 2
    /\ \E hora_entrada \in Entradas :
       \E hora_salida \in {Null} \cup {hora_entrada + d : d \in Duraciones} :
          /\ registros_escaneo =
                 Insert(<<>>, 1, [NewRegistro(1, 1, hora_entrada)
                                     EXCEPT !.hora_salida = hora_salida])
          /\ clock = IF hora_salida = Null THEN hora_entrada ELSE hora_salida
    /\ reg_seq = 2
    /\ last_scan_events = [u \in Employees |-> NoEvent]
    /\ directory = Employees
    /\ last = Response("none", None, "OK", Null, {}, NoEvent)
    /\ workers = [w \in Workers |-> Idle]

NextDuration == \E r \in RegIds : render_escaneo(r)

SpecDuration == InitDuration /\ [][NextDuration]_vars

\* Scans served by several workers at once.
NextRace ==
    \/ \E e \in Employees : generate_qr(e)
    \/ \E w \in Workers, q \in QrIds : scan_begin(w, q)
    \/ \E w \in Workers : scan_read(w)
    \/ \E w \in Workers : scan_write(w)
    \/ \E w \in Workers : scan_notify(w)

SpecRace == Init /\ [][NextRace]_vars

\* One scan in flight, served step by step, while logins rotate the codes.
FirstWorker == CHOOSE w \in Workers : \A v \in Workers : w <= v

NextOverlap ==
    \/ \E e \in Employees : generate_qr(e)
    \/ \E e \in Employees : regenerate_qr_for_employee(e)
    \/ \E q \in QrIds : scan_begin(FirstWorker, q)
    \/ scan_read(FirstWorker)
    \/ scan_write(FirstWorker)
    \/ scan_notify(FirstWorker)

SpecOverlap == Init /\ [][NextOverlap]_vars

\* Logins served by several workers at once, commit by commit.
NextRotate ==
    \/ \E e \in Employees : generate_qr(e)
    \/ \E w \in Workers, e \in Employees : login_begin(w, e)
    \/ \E w \in Workers : login_deactivate(w)
    \/ \E w \in Workers : login_insert(w)
    \/ \E w \in Workers : login_update(w)
    \/ \E w \in Workers : login_fail(w)

SpecRotate == Init /\ [][NextRotate]_vars

\* Generate and login requests served by several workers, commit by commit,
\* with logins that end between two commits.
NextTwoPhase ==
    \/ \E w \in Workers, e \in Employees : generate_begin(w, e)
    \/ \E w \in Workers : generate_insert(w)
    \/ \E w \in Workers : generate_update(w)
    \/ \E w \in Workers, e \in Employees : login_begin(w, e)
    \/ \E w \in Workers : login_deactivate(w)
    \/ \E w \in Workers : login_insert(w)
    \/ \E w \in Workers : login_update(w)
    \/ \E w \in Workers : login_fail(w)

SpecTwoPhase == Init /\ [][NextTwoPhase]_vars

\* Every handler, one request at a time.
Next ==
    \/ \E e \in Employees : generate_qr(e)
    \/ \E e \in Employees : regenerate_qr_for_employee(e)
    \/ \E q \in QrIds : toggle_qr_status(q)
    \/ \E q \in QrIds : delete_qr(q)
    \/ cleanup_orphaned_qrs
    \/ \E e \in Employees : get_employee_scans(e)
    \/ \E q \in QrIds : record_scan(q)
    \/ \E r \in RegIds : force_exit(r)
    \/ \E q \in QrIds : validate_qr(q)
    \/ \E u \in Employees : get_last_scan_event(u)
    \/ \E e \in Employees : DirectoryJoin(e)
    \/ \E e \in Employees : DirectoryLeave(e)

Spec == Init /\ [][Next]_vars

\* ------------------------------------------------------------ claims ----
\* The active codes of an employee, and a code's records of one day (the
\* day of a record is the UTC date of its hora_entrada).
ActiveCodes(e) ==
    {q \in DOMAIN qr_codes : qr_codes[q].empleado_id = e /\ qr_codes[q].activo}

RecordsOfDay(q, d) ==
    {r \in DOMAIN registros_escaneo :
        /\ registros_escaneo[r].qr_id = q
        /\ registros_escaneo[r].hora_entrada \div SecondsPerDay = d}

Days == 0..MaxDay

\* C1: after any sequence of generate (issue_or_get) and login (rotate)
\* requests, every employee has at most one code with activo = TRUE.
C1_SingleActiveCode ==
    \A e \in Employees : Cardinality(ActiveCodes(e)) <= 1

\* A login has rotated an employee's code: the old one is inactive, the new
\* one is the only active one.
C1_Witness ==
    /\ last.op = "login" /\ last.status = "CREATED"
    /\ ActiveCodes(last.arg) = last.ret
    /\ \E q \in DOMAIN qr_codes :
          qr_codes[q].empleado_id = last.arg /\ ~qr_codes[q].activo

\* C2: under every handler that writes qr_codes (generate, login, toggle,
\* cleanup, delete), no employee ever has two active codes.
C2_SingleActiveCodeAlways ==
    \A e \in Employees : \A q1, q2 \in ActiveCodes(e) : q1 = q2

\* C3: with requests served one at a time (scan, forced exit, login, toggle,
\* generate), a code has at most one record per UTC calendar day.
C3_OneRecordPerCodeDay ==
    \A r1, r2 \in DOMAIN registros_escaneo :
        /\ registros_escaneo[r1].qr_id = registros_escaneo[r2].qr_id
        /\ date(registros_escaneo[r1].hora_entrada)
              = date(registros_escaneo[r2].hora_entrada)
        => r1 = r2

\* A code holds records of two different days.
C3_Witness ==
    \E r1, r2 \in DOMAIN registros_escaneo :
        /\ registros_escaneo[r1].qr_id = registros_escaneo[r2].qr_id
        /\ date(registros_escaneo[r1].hora_entrada)
              # date(registros_escaneo[r2].hora_entrada)

\* C4: two scans of one code that overlap in time never leave two records
\* for the same code and day.
C4_NoDuplicateUnderOverlap ==
    \A q \in QrIds, d \in Days : Cardinality(RecordsOfDay(q, d)) <= 1

\* A scan of code q that passed the checks of the code and of its employee:
\* it read the clock, and clock' is its `now`.
ScanDecides(q) ==
    /\ record_scan(q)
    /\ q \in DOMAIN qr_codes
    /\ qr_codes[q].activo
    /\ last'.status # "EmployeeNotFound"

\* C5: for an active code whose employee resolves, the first scan of a day
\* inserts a record with hora_entrada = now and hora_salida NULL; a scan of
\* the same day at least 60 s after the entry sets hora_salida = now on that
\* record; a scan after that, on the same day, fails AlreadyCompletedToday
\* and writes nothing.
C5_StateProgression ==
    [][\A q \in QrIds : ScanDecides(q) =>
        LET hoy == RecordsOfDay(q, clock' \div SecondsPerDay) IN
        /\ hoy = {} =>
              /\ last'.status = "ENTRADA"
              /\ last'.ret = {reg_seq}
              /\ reg_seq \notin DOMAIN registros_escaneo
              /\ DOMAIN registros_escaneo' = DOMAIN registros_escaneo \cup {reg_seq}
              /\ registros_escaneo'[reg_seq] =
                    [qr_id |-> q, empleado_id |-> qr_codes[q].empleado_id,
                     fecha |-> clock', hora_entrada |-> clock',
                     hora_salida |-> Null]
              /\ \A r \in DOMAIN registros_escaneo :
                    registros_escaneo'[r] = registros_escaneo[r]
              /\ UNCHANGED qr_codes
        /\ \A r \in hoy :
              /\ registros_escaneo[r].hora_salida = Null
              /\ clock' - registros_escaneo[r].hora_entrada >= MinDwell
              => /\ last'.status = "SALIDA"
                 /\ last'.ret = {r}
                 /\ registros_escaneo' =
                       [registros_escaneo EXCEPT ![r].hora_salida = clock']
                 /\ UNCHANGED qr_codes
        /\ \A r \in hoy :
              registros_escaneo[r].hora_salida # Null
              => /\ last'.status = "AlreadyCompletedToday"
                 /\ UNCHANGED <<ledger, last_scan_events>>
      ]_vars

\* The third scan of a day was refused, after an entry and an exit at least
\* 60 s apart.
C5_Witness ==
    /\ last.op = "scan" /\ last.status = "AlreadyCompletedToday"
    /\ \E r \in RecordsOfDay(last.arg, date(clock)) :
          /\ registros_escaneo[r].hora_salida # Null
          /\ registros_escaneo[r].hora_salida
                - registros_escaneo[r].hora_entrada >= MinDwell

\* C6: a scan of a code whose record of today is open and was entered less
\* than 60 s before now fails TooSoonForExit; the record stays open and the
\* ledger and the mailbox stay as they were.
C6_DwellGuard ==
    [][\A q \in QrIds : ScanDecides(q) =>
        \A r \in RecordsOfDay(q, clock' \div SecondsPerDay) :
            /\ registros_escaneo[r].hora_salida = Null
            /\ clock' - registros_escaneo[r].hora_entrada < MinDwell
            => /\ last'.status = "TooSoonForExit"
               /\ UNCHANGED <<ledger, last_scan_events>>
               /\ registros_escaneo'[r].hora_salida = Null
      ]_vars

\* A scan was refused as too soon and its record is still open.
C6_Witness ==
    /\ last.op = "scan" /\ last.status = "TooSoonForExit"
    /\ \E r \in RecordsOfDay(last.arg, date(clock)) :
          /\ registros_escaneo[r].hora_salida = Null
          /\ clock - registros_escaneo[r].hora_entrada < MinDwell

\* C7: a login of an employee with one active code sets that code inactive
\* (with several active codes, the one the lookup returns, and no other row
\* changes) and changes no scan record: every record that existed under the
\* employee's codes is still there, unchanged, and is in the result of the
\* scan-history query by employee id.
C7_RotationPreservesHistory ==
    [][\A e \in Employees :
        regenerate_qr_for_employee(e) /\ last'.status = "CREATED" =>
        /\ registros_escaneo' = registros_escaneo
        /\ Cardinality(ActiveCodes(e)) = 1 =>
              \A q \in ActiveCodes(e) :
                 /\ q \in DOMAIN qr_codes'
                 /\ ~qr_codes'[q].activo
                 /\ qr_codes'[q].empleado_id = e
        /\ ActiveCodes(e) # {} =>
              \E q \in ActiveCodes(e) :
                 /\ ~qr_codes'[q].activo
                 /\ \A p \in DOMAIN qr_codes \ {q} : qr_codes'[p] = qr_codes[p]
        /\ \A r \in DOMAIN registros_escaneo :
              /\ registros_escaneo[r].qr_id \in DOMAIN qr_codes
              /\ qr_codes[registros_escaneo[r].qr_id].empleado_id = e
              => /\ r \in EmployeeScans(e)'
                 /\ registros_escaneo'[r] = registros_escaneo[r]
      ]_vars

\* A login has rotated out a code that holds scan records.
C7_Witness ==
    /\ last.op = "login" /\ last.status = "CREATED"
    /\ \E r \in EmployeeScans(last.arg) :
          /\ ~qr_codes[registros_escaneo[r].qr_id].activo
          /\ registros_escaneo[r].qr_id \notin last.ret

\* C8: the mailbox holds one slot per recipient.  A successful scan leaves
\* its own event in the slot of every recipient it notifies, whatever was
\* pending there, and leaves the other slots alone; a poll returns the
\* content of the slot and empties it, so that a second poll with no scan in
\* between returns nothing; no other request writes a slot.
C8_MailboxOneSlot ==
    [][/\ \A q \in QrIds :
             record_scan(q) /\ last'.status \in {"ENTRADA", "SALIDA"} =>
             \A u \in Employees :
                last_scan_events'[u] =
                    IF u \in last'.notified
                    THEN [type |-> last'.status,
                          empleado_name |-> qr_codes[q].empleado_id,
                          timestamp |-> clock']
                    ELSE last_scan_events[u]
       /\ \A u \in Employees :
             get_last_scan_event(u) =>
             /\ last'.event = last_scan_events[u]
             /\ last_scan_events'[u] = NoEvent
             /\ \A v \in Employees \ {u} :
                   last_scan_events'[v] = last_scan_events[v]
       /\ \A u \in Employees :
             last_scan_events'[u] # last_scan_events[u] =>
             \/ get_last_scan_event(u)
             \/ \E q \in QrIds :
                   /\ record_scan(q)
                   /\ last'.status \in {"ENTRADA", "SALIDA"}
                   /\ u \in last'.notified
      ]_vars

\* An exit scan has replaced the pending event of an entry scan in the slot
\* of a recipient that did not poll in between.
C8_Witness ==
    /\ last.op = "scan" /\ last.status = "SALIDA"
    /\ \E u \in last.displaced :
          /\ last_scan_events[u].type = "SALIDA"
          /\ last_scan_events[u].timestamp = clock

\* C9: generate for an employee who has an active code answers with that
\* code and changes neither table; for an employee with no active code it
\* inserts exactly one code, active and bound to the employee, so that the
\* next call finds it.
C9_GenerateIdempotent ==
    [][\A e \in Employees :
        generate_qr(e) /\ last'.status # "EmployeeNotFound" =>
        IF ActiveCodes(e) # {}
        THEN /\ last'.status = "OK"
             /\ \E q \in ActiveCodes(e) : last'.ret = {q}
             /\ UNCHANGED <<qr_codes, registros_escaneo>>
        ELSE /\ last'.status = "CREATED"
             /\ last'.ret = {qr_seq}
             /\ qr_seq \notin DOMAIN qr_codes
             /\ DOMAIN qr_codes' = DOMAIN qr_codes \cup {qr_seq}
             /\ \A q \in DOMAIN qr_codes : qr_codes'[q] = qr_codes[q]
             /\ qr_codes'[qr_seq].empleado_id = e
             /\ qr_codes'[qr_seq].activo
             /\ UNCHANGED registros_escaneo
      ]_vars

\* A generate has answered with the existing code of an employee who has
\* scan records.
C9_Witness ==
    /\ last.op = "generate" /\ last.status = "OK"
    /\ last.ret \subseteq ActiveCodes(last.arg)
    /\ \E r \in DOMAIN registros_escaneo : registros_escaneo[r].qr_id \in last.ret

\* C10: when the directory does not resolve the employee (it is absent, or
\* the call times out or fails), generate and login answer EmployeeNotFound
\* and write nothing: no code is inserted and none is deactivated.
C10_UnresolvedEmployeeNoWrite ==
    /\ [](\A e \in Employees, net \in Net :
            net # "ok" \/ e \notin directory => get_employee_by_id(e, net) = None)
    /\ [][\A e \in Employees :
            generate_qr(e) \/ regenerate_qr_for_employee(e) =>
            /\ e \notin directory => last'.status = "EmployeeNotFound"
            /\ last'.status = "EmployeeNotFound" => UNCHANGED ledger
         ]_vars

\* A login was refused for an employee who is in the directory (the call
\* failed) and whose active code is still active.
C10_Witness ==
    /\ last.op = "login" /\ last.status = "EmployeeNotFound"
    /\ last.arg \in directory
    /\ ActiveCodes(last.arg) # {}

\* C11: a scan of a code with activo = FALSE (after a login, a toggle or a
\* cleanup) answers CodeInactive and writes nothing, whether or not the code
\* has an open record.
C11_InactiveCodeRejected ==
    [][\A q \in QrIds :
        record_scan(q) /\ q \in DOMAIN qr_codes /\ ~qr_codes[q].activo =>
        /\ last'.status = "CodeInactive"
        /\ UNCHANGED <<ledger, last_scan_events>>
      ]_vars

\* A scan of an inactive code was refused while the code holds an open
\* record of the current day.
C11_Witness ==
    /\ last.op = "scan" /\ last.status = "CodeInactive"
    /\ \E r \in RecordsOfDay(last.arg, date(clock)) :
          registros_escaneo[r].hora_salida = Null

\* The statuses with which record_scan rejects a request.
ScanRejections ==
    {"CodeNotFound", "CodeInactive", "EmployeeNotFound", "TooSoonForExit",
     "AlreadyCompletedToday"}

\* C12: every rejected scan leaves the tables qr_codes and registros_escaneo
\* exactly as they were, and a scan that is not rejected is an ENTRADA or a
\* SALIDA.
C12_RejectedScanNoWrite ==
    [][\A q \in QrIds : record_scan(q) =>
        /\ last'.status \in ScanRejections \cup {"ENTRADA", "SALIDA"}
        /\ last'.status \in ScanRejections =>
              UNCHANGED <<qr_codes, qr_seq, registros_escaneo, reg_seq>>
      ]_vars

\* A scan was refused because the directory did not resolve the employee of
\* an active code that holds an open record.
C12_Witness ==
    /\ last.op = "scan" /\ last.status = "EmployeeNotFound"
    /\ \E r \in DOMAIN registros_escaneo :
          /\ registros_escaneo[r].qr_id = last.arg
          /\ registros_escaneo[r].hora_salida = Null

C14_CrossMidnightExit ==
    [][\A q \in QrIds : ScanDecides(q) =>
        \A r \in DOMAIN registros_escaneo :
            /\ registros_escaneo[r].qr_id = q
            /\ registros_escaneo[r].hora_salida = Null
            /\ date(registros_escaneo[r].hora_entrada) + 1 = date(clock')
            /\ clock' - registros_escaneo[r].hora_entrada >= MinDwell
            => /\ last'.status = "SALIDA"
               /\ last'.ret = {r}
               /\ registros_escaneo'[r].hora_salida = clock'
               /\ DOMAIN registros_escaneo' = DOMAIN registros_escaneo
      ]_vars

\* C19: a forced exit of an open record sets hora_salida = now on that record
\* and changes nothing else in the ledger, however short the time since the
\* entry; on a closed record it answers AlreadyClosed, on an unknown id
\* NotFound, and in both cases writes nothing.
C19_ForceClose ==
    [][\A r \in RegIds : force_exit(r) =>
        IF r \notin DOMAIN registros_escaneo
        THEN /\ last'.status = "NotFound"
             /\ UNCHANGED <<ledger, last_scan_events>>
        ELSE IF registros_escaneo[r].hora_salida # Null
        THEN /\ last'.status = "AlreadyClosed"
             /\ UNCHANGED <<ledger, last_scan_events>>
        ELSE /\ last'.status = "OK"
             /\ clock' > clock
             /\ registros_escaneo' =
                   [registros_escaneo EXCEPT ![r].hora_salida = clock']
             /\ UNCHANGED <<qr_codes, qr_seq, reg_seq, last_scan_events>>
      ]_vars

\* A forced exit has closed a record less than 60 s after its entry.
C19_Witness ==
    /\ last.op = "force" /\ last.status = "OK"
    /\ registros_escaneo[last.arg].hora_salida = clock
    /\ clock - registros_escaneo[last.arg].hora_entrada < MinDwell

\* C15: validate writes nothing: for every id and every state it leaves the
\* tables qr_codes and registros_escaneo, their id sequences and every
\* mailbox slot as they were.
C15_ValidateReadOnly ==
    [][\A q \in QrIds : validate_qr(q) =>
        UNCHANGED <<qr_codes, qr_seq, registros_escaneo, reg_seq,
                    last_scan_events>>
      ]_vars

\* validate has previewed the exit of an open record while a notification
\* is pending.
C15_Witness ==
    /\ last.op = "validate" /\ last.status = "VALID_SALIDA"
    /\ \E r \in last.ret : registros_escaneo[r].hora_salida = Null
    /\ \E u \in Employees : last_scan_events[u] # NoEvent

\* C16: validate on an id that is not in qr_codes answers with a result
\* that says "not valid"; it does not fail.
C16_ValidateUnknownCode ==
    [][\A q \in QrIds :
        validate_qr(q) /\ q \notin DOMAIN qr_codes => last'.status = "INVALID"
      ]_vars

\* C17: validate on a code that record_scan refuses as inactive, or whose
\* employee the directory does not resolve, answers "not valid" with no
\* next action.
C17_ValidateInactiveCode ==
    [][\A q \in QrIds : validate_qr(q) /\ q \in DOMAIN qr_codes =>
        /\ ~qr_codes[q].activo => last'.status = "INVALID"
        /\ qr_codes[q].empleado_id \notin directory => last'.status = "INVALID"
      ]_vars

C20_RotationAtomic ==
    [][\A e \in Employees : ActiveCodes(e) # {} => ActiveCodes(e)' # {}]_vars

\* C21: a login that answers CREATED has inserted one code under an id that
\* no row had before, bound to the employee and active, and when it returns
\* that code is the only active code of the employee.
C21_RotateOnlyActiveCode ==
    [][\A w \in Workers : login_update(w) =>
        LET me == workers[w] IN
        /\ last'.status = "CREATED"
        /\ last'.ret = {me.qr_id}
        /\ qr_codes'[me.qr_id].empleado_id = me.employee
        /\ qr_codes'[me.qr_id].activo
        /\ {q \in DOMAIN qr_codes' :
                qr_codes'[q].empleado_id = me.employee /\ qr_codes'[q].activo}
              = {me.qr_id}
      ]_vars

\* The payload a scan of code q posts: its type, the name of the employee
\* and the instant of the scan.
PayloadOf(q) ==
    [type |-> last'.status, empleado_name |-> qr_codes[q].empleado_id,
     timestamp |-> clock']

\* The members of the directory with the role ADMIN.
DirectoryAdmins == {u \in directory : Role(u) = "ADMIN"}

\* C22, as stated: after a successful scan every ADMIN of the directory has
\* the payload of that scan pending, and no other slot has changed.
C22_EveryAdminNotified ==
    [][\A q \in QrIds :
        record_scan(q) /\ last'.status \in {"ENTRADA", "SALIDA"} =>
        \A u \in Employees :
            last_scan_events'[u] =
                IF u \in DirectoryAdmins THEN PayloadOf(q)
                ELSE last_scan_events[u]
      ]_vars

\* C22, amended: a successful scan notifies the ADMINs that its listing of
\* the directory returns.  When the listing succeeds these are the ADMINs of
\* the directory, each of whom has the payload of the scan pending, in place
\* of what was pending; when the listing fails, nobody is notified.  No other
\* slot changes, so a recipient without the role gets no payload.
C22_ListedAdminsNotified ==
    [][\A q \in QrIds :
        record_scan(q) /\ last'.status \in {"ENTRADA", "SALIDA"} =>
        /\ last'.notified \in {DirectoryAdmins, {}}
        /\ \A u \in Employees :
              last_scan_events'[u] =
                  IF u \in last'.notified THEN PayloadOf(q)
                  ELSE last_scan_events[u]
      ]_vars

\* An entry scan has replaced the pending payload of an ADMIN, and the
\* slot of the employee without the role is empty.
C22_Witness ==
    /\ last.op = "scan" /\ last.status = "ENTRADA"
    /\ last.notified = DirectoryAdmins
    /\ \E u \in last.displaced :
          /\ last_scan_events[u].type = "ENTRADA"
          /\ last_scan_events[u].timestamp = clock
    /\ \E u \in Employees : Role(u) # "ADMIN" /\ last_scan_events[u] = NoEvent

\* C23: a rejected scan leaves every mailbox slot as it was.
C23_RejectedScanPostsNothing ==
    [][\A q \in QrIds :
        record_scan(q) /\ last'.status \in ScanRejections =>
        UNCHANGED last_scan_events
      ]_vars

\* A scan was refused as completed for today while a payload is pending.
C23_Witness ==
    /\ last.op = "scan" /\ last.status = "AlreadyCompletedToday"
    /\ \E u \in Employees : last_scan_events[u] # NoEvent

\* The polls that have taken a payload and not yet returned it.
Deliveries == {w \in Workers : workers[w].pc = "deliver" /\ workers[w].event # NoEvent}

\* C24: with polls of one recipient in flight at once, a posted payload is
\* taken by at most one of them: no two polls hold the same payload, a
\* payload that a poll holds or has just returned is no longer in its slot,
\* and no poll in flight holds the payload that was just returned.
C24_SingleTakeWins ==
    /\ \A w1, w2 \in Deliveries :
          /\ workers[w1].user_id = workers[w2].user_id
          /\ workers[w1].event = workers[w2].event
          => w1 = w2
    /\ \A w \in Deliveries :
          last_scan_events[workers[w].user_id] # workers[w].event
    /\ last.op = "poll" /\ last.event # NoEvent =>
          /\ last_scan_events[last.arg] # last.event
          /\ \A w \in Deliveries :
                workers[w].user_id = last.arg => workers[w].event # last.event

\* Two polls of one recipient are in flight at once: one has taken the
\* pending payload, the other found the slot empty.
C24_Witness ==
    \E w1, w2 \in Workers :
        /\ workers[w1].pc = "deliver" /\ workers[w2].pc = "deliver"
        /\ workers[w1].user_id = workers[w2].user_id
        /\ workers[w1].event # NoEvent
        /\ workers[w2].event = NoEvent

\* C25: a toggle of an existing code negates its activo and changes nothing
\* else in the ledger; on an unknown id it answers CodeNotFound and writes
\* nothing; toggling a code twice gives back the table as it was.
C25_ToggleInvolution ==
    /\ [][\A q \in QrIds : toggle_qr_status(q) =>
            IF q \notin DOMAIN qr_codes
            THEN /\ last'.status = "CodeNotFound"
                 /\ UNCHANGED ledger
            ELSE /\ last'.status = "OK"
                 /\ DOMAIN qr_codes' = DOMAIN qr_codes
                 /\ qr_codes'[q].activo = ~qr_codes[q].activo
                 /\ qr_codes'[q].empleado_id = qr_codes[q].empleado_id
                 /\ qr_codes'[q].qr_code_base64 = qr_codes[q].qr_code_base64
                 /\ \A p \in DOMAIN qr_codes \ {q} : qr_codes'[p] = qr_codes[p]
                 /\ UNCHANGED <<qr_seq, registros_escaneo, reg_seq>>
         ]_vars
    /\ [](\A q \in DOMAIN qr_codes :
            ToggleActivo(ToggleActivo(qr_codes, q), q) = qr_codes)

\* A toggle has switched on a code that a login had rotated out.
C25_Witness ==
    /\ last.op = "toggle" /\ last.status = "OK"
    /\ \E q \in last.ret :
          /\ qr_codes[q].activo
          /\ \E p \in DOMAIN qr_codes :
                /\ p > q
                /\ qr_codes[p].empleado_id = qr_codes[q].empleado_id

\* C26: the purge of a code removes its row and every record with its
\* qr_id, and no other row; on an unknown id it writes nothing; and in every
\* state the qr_id of every record is the id of a row of qr_codes.
C26_PurgeCascades ==
    /\ [][\A q \in QrIds : delete_qr(q) =>
            IF q \notin DOMAIN qr_codes
            THEN /\ last'.status = "CodeNotFound"
                 /\ UNCHANGED ledger
            ELSE /\ DOMAIN qr_codes' = DOMAIN qr_codes \ {q}
                 /\ \A p \in DOMAIN qr_codes' : qr_codes'[p] = qr_codes[p]
                 /\ DOMAIN registros_escaneo' =
                       {r \in DOMAIN registros_escaneo :
                           registros_escaneo[r].qr_id # q}
                 /\ \A r \in DOMAIN registros_escaneo' :
                       registros_escaneo'[r] = registros_escaneo[r]
         ]_vars
    /\ [](\A r \in DOMAIN registros_escaneo :
            registros_escaneo[r].qr_id \in DOMAIN qr_codes)

\* A purge has removed a code with its records and left the records of
\* another code in place.
C26_Witness ==
    /\ last.op = "delete" /\ last.status = "OK"
    /\ last.ret # {}
    /\ last.arg \notin DOMAIN qr_codes
    /\ registros_escaneo # <<>>

C28_CleanupOnlyOrphans ==
    [][cleanup_orphaned_qrs =>
        /\ DOMAIN qr_codes' = DOMAIN qr_codes
        /\ \A q \in DOMAIN qr_codes :
              qr_codes'[q].activo =
                 (qr_codes[q].activo /\ qr_codes[q].empleado_id \in directory)
           \/ UNCHANGED qr_codes
      ]_vars

\* C29: the legacy scan endpoint does what record_scan does: it rejects in
\* the same cases without writing, and a rejection carries the error class
\* of record_scan, 404 for a code that is not found or whose employee is not
\* found, 400 for an inactive code, an early exit or a completed day.
C29_LegacyRefinesScan ==
    [][\A q \in QrIds : legacy_record_scan(q) =>
        /\ HttpStatus(last'.status) \in {200, 400, 404}
        /\ q \notin DOMAIN qr_codes => HttpStatus(last'.status) = 404
        /\ (q \in DOMAIN qr_codes /\ ~qr_codes[q].activo) =>
              HttpStatus(last'.status) = 400
        /\ HttpStatus(last'.status) # 200 =>
              UNCHANGED <<ledger, last_scan_events>>]_vars

\* C30: record_scan checks the existence of the code, then its active flag,
\* then its employee, then today's record.  An unknown id fails CodeNotFound
\* and an inactive code fails CodeInactive whatever the directory holds or
\* answers; EmployeeNotFound is reported only for an existing active code,
\* and always when its employee has left the directory; today's record
\* decides only for an existing active code whose employee is listed.
C30_ScanCheckOrder ==
    [][\A q \in QrIds : record_scan(q) =>
        /\ q \notin DOMAIN qr_codes =>
              last' = Response("scan", q, "CodeNotFound", Null, {}, NoEvent)
        /\ (q \in DOMAIN qr_codes /\ ~qr_codes[q].activo) =>
              last' = Response("scan", q, "CodeInactive", Null, {}, NoEvent)
        /\ last'.status \in {"CodeNotFound", "CodeInactive"} =>
              (q \notin DOMAIN qr_codes \/ ~qr_codes[q].activo)
        /\ (/\ q \in DOMAIN qr_codes
            /\ qr_codes[q].activo
            /\ qr_codes[q].empleado_id \notin directory) =>
              last'.status = "EmployeeNotFound"
        /\ last'.status \in {"ENTRADA", "SALIDA", "TooSoonForExit",
                             "AlreadyCompletedToday"} =>
              /\ q \in DOMAIN qr_codes
              /\ qr_codes[q].activo
              /\ qr_codes[q].empleado_id \in directory]_vars

\* A scan of an inactive code whose employee has left the directory was
\* refused as CodeInactive.
C30_Witness ==
    /\ last.op = "scan" /\ last.status = "CodeInactive"
    /\ last.arg \in DOMAIN qr_codes
    /\ ~qr_codes[last.arg].activo
    /\ qr_codes[last.arg].empleado_id \notin directory

\* C31: while generate and login requests for one employee overlap, taking
\* turns at the directory call and at each commit, no committed state holds
\* two different active codes of the same employee.
C31_OverlapSingleActiveCode ==
    \A q1, q2 \in DOMAIN qr_codes :
        (/\ q1 # q2
         /\ qr_codes[q1].empleado_id = qr_codes[q2].empleado_id)
        => ~(qr_codes[q1].activo /\ qr_codes[q2].activo)

\* C32: when two successful scans overlap, the payload left pending for an
\* administrator once both have finished is that of the scan whose write was
\* committed last.  Record ids are given at the commit of an ENTRADA, so a
\* pending payload that belongs to a record with a higher id than the record
\* of the scan now notifying was posted by a scan that committed later, and
\* must stay.  The two scans are of different codes.
C32_LastCommitWins ==
    [][\A w \in Workers :
        (scan_notify(w) /\ workers[w].scan_type = "ENTRADA") =>
        \A u \in DOMAIN last_scan_events :
            (\E r2 \in DOMAIN registros_escaneo :
                /\ r2 > workers[w].registro_hoy
                /\ registros_escaneo[r2].qr_id # workers[w].qr_id
                /\ last_scan_events[u] =
                       ScanEvent("ENTRADA", registros_escaneo[r2].empleado_id,
                                 registros_escaneo[r2].hora_entrada))
            => last_scan_events'[u] = last_scan_events[u]]_vars

\* C33: the open record of a code that a login has rotated out stays as it
\* is: the login does not touch it, and while the code is inactive no step
\* of a scan changes it; only a forced exit sets its hora_salida.
C33_RotatedOutRecordStaysOpen ==
    [][\A r \in DOMAIN registros_escaneo :
        (/\ registros_escaneo[r].qr_id \in DOMAIN qr_codes
         /\ ~qr_codes[registros_escaneo[r].qr_id].activo
         /\ registros_escaneo[r].hora_salida = Null)
        => \/ /\ r \in DOMAIN registros_escaneo'
              /\ registros_escaneo'[r] = registros_escaneo[r]
           \/ \E x \in RegIds : force_exit(x)]_vars

\* C34: a scan that answers SALIDA changes one field of one row: the
\* hora_salida of the record of this code and of today, which becomes now.
\* The id, qr_id, empleado_id, fecha and hora_entrada of that record, every
\* other record, the set of record ids and the table of codes stay as they
\* were.
C34_ExitFrame ==
    [][\A q \in QrIds : (record_scan(q) /\ last'.status = "SALIDA") =>
        /\ UNCHANGED <<qr_codes, qr_seq, reg_seq>>
        /\ DOMAIN registros_escaneo' = DOMAIN registros_escaneo
        /\ \E r \in RecordsOfDay(q, date(clock')) :
              /\ last'.ret = {r}
              /\ registros_escaneo[r].hora_salida = Null
              /\ registros_escaneo'[r] =
                     [registros_escaneo[r] EXCEPT !.hora_salida = clock']
              /\ \A x \in DOMAIN registros_escaneo \ {r} :
                    registros_escaneo'[x] = registros_escaneo[x]]_vars

\* An exit was recorded while the table held another record.
C34_Witness ==
    /\ last.op = "scan" /\ last.status = "SALIDA"
    /\ \E r \in last.ret, x \in DOMAIN registros_escaneo :
          /\ x # r
          /\ registros_escaneo[r].hora_salida = last.now
          /\ registros_escaneo[x].hora_salida # last.now

\* C35: in every reachable state the empleado_id of a record is the
\* empleado_id of the code the record belongs to, and no step changes the
\* empleado_id of a record or of a code that it keeps.
C35_RecordEmployeeIsCodeEmployee ==
    /\ [](\A r \in DOMAIN registros_escaneo :
            /\ registros_escaneo[r].qr_id \in DOMAIN qr_codes
            /\ registros_escaneo[r].empleado_id =
                   qr_codes[registros_escaneo[r].qr_id].empleado_id)
    /\ [][/\ \A r \in DOMAIN registros_escaneo \cap DOMAIN registros_escaneo' :
                registros_escaneo'[r].empleado_id =
                    registros_escaneo[r].empleado_id
          /\ \A q \in DOMAIN qr_codes \cap DOMAIN qr_codes' :
                qr_codes'[q].empleado_id = qr_codes[q].empleado_id]_vars

\* A closed record of a code whose id differs from its employee's, after
\* the employee's code has been rotated.
C35_Witness ==
    \E r \in DOMAIN registros_escaneo :
        /\ registros_escaneo[r].hora_salida # Null
        /\ registros_escaneo[r].empleado_id # registros_escaneo[r].qr_id
        /\ ~qr_codes[registros_escaneo[r].qr_id].activo

\* C36: generate, login, toggle, scan, forced exit, validate and the cleanup
\* of orphaned codes delete no row: every code id and every record id of a
\* state is still there after the step.
C36_HistoryOnlyGrows ==
    [][/\ DOMAIN qr_codes \subseteq DOMAIN qr_codes'
       /\ DOMAIN registros_escaneo \subseteq DOMAIN registros_escaneo']_vars

\* The cleanup has deactivated a code that holds a record, next to a code
\* that was already inactive.
C36_Witness ==
    /\ last.op = "cleanup" /\ last.status = "OK"
    /\ \E r \in DOMAIN registros_escaneo :
          registros_escaneo[r].qr_id \in last.ret
    /\ \E q \in DOMAIN qr_codes \ last.ret : ~qr_codes[q].activo

\* C37: a record that has an hora_salida has it at or after its
\* hora_entrada, and a record that a scan closes is closed at least 60 s
\* after its entry (a forced exit may close it sooner).
C37_ClosedRecordDuration ==
    /\ [](\A r \in DOMAIN registros_escaneo :
            registros_escaneo[r].hora_salida # Null =>
                registros_escaneo[r].hora_salida
                    >= registros_escaneo[r].hora_entrada)
    /\ [][\A q \in QrIds : record_scan(q) =>
            \A r \in DOMAIN registros_escaneo :
                (/\ registros_escaneo[r].hora_salida = Null
                 /\ registros_escaneo'[r].hora_salida # Null)
                => registros_escaneo'[r].hora_salida
                       - registros_escaneo'[r].hora_entrada >= MinDwell]_vars

\* A scan has closed its record 60 s or more after the entry while another
\* record, closed by a forced exit, lasted less than 60 s.
C37_Witness ==
    /\ last.op = "scan" /\ last.status = "SALIDA"
    /\ \E r \in last.ret, x \in DOMAIN registros_escaneo :
          /\ registros_escaneo[r].hora_salida
                - registros_escaneo[r].hora_entrada >= MinDwell
          /\ x # r
          /\ registros_escaneo[x].hora_salida # Null
          /\ registros_escaneo[x].hora_salida
                - registros_escaneo[x].hora_entrada < MinDwell

\* C38: the write of a scan does not depend on its notification.  A scan
\* that answers ENTRADA or SALIDA has committed its record, and when its
\* listing of the users returned nobody to notify, as it does when the
\* listing fails, it still answers with that record and leaves every slot of
\* the mailbox as it was.
C38_WriteBeforeNotify ==
    [][\A q \in QrIds :
        (record_scan(q) /\ last'.status \in {"ENTRADA", "SALIDA"}) =>
        /\ \E r \in DOMAIN registros_escaneo' :
              /\ last'.ret = {r}
              /\ registros_escaneo'[r].qr_id = q
              /\ last'.status = "ENTRADA" =>
                    /\ r \notin DOMAIN registros_escaneo
                    /\ registros_escaneo'[r].hora_entrada = clock'
                    /\ registros_escaneo'[r].hora_salida = Null
              /\ last'.status = "SALIDA" =>
                    /\ registros_escaneo[r].hora_salida = Null
                    /\ registros_escaneo'[r].hora_salida = clock'
        /\ last'.notified = {} => UNCHANGED last_scan_events]_vars

\* A scan has committed its record and notified nobody although the
\* directory holds an administrator, whose slot keeps the payload of an
\* earlier scan.
C38_Witness ==
    /\ last.op = "scan" /\ last.status \in {"ENTRADA", "SALIDA"}
    /\ last.notified = {}
    /\ last.ret \subseteq DOMAIN registros_escaneo
    /\ \E u \in DirectoryAdmins :
          /\ last_scan_events[u] # NoEvent
          /\ last_scan_events[u].timestamp < last.now

\* C39: the duration reported for a closed record is h hours and m minutes
\* with 0 <= m < 60 and 3600 h + 60 m <= hora_salida - hora_entrada
\* < 3600 h + 60 m + 60, the seconds being dropped: 61 s is reported as
\* 0h 1m and 59 s as 0h 0m.  An open record has no duration.
C39_DurationTruncated ==
    last.op = "render" =>
        LET escaneo == registros_escaneo[last.arg]
            seconds == escaneo.hora_salida - escaneo.hora_entrada
        IN \E resp \in last.ret :
            /\ last.ret = {resp}
            /\ escaneo.hora_salida = Null =>
                  resp.es_entrada /\ resp.duracion_jornada = <<>>
            /\ escaneo.hora_salida # Null =>
                  /\ ~resp.es_entrada
                  /\ \E h \in 0..25, m \in 0..59 :
                        /\ resp.duracion_jornada = <<h, "h ", m, "m">>
                        /\ 3600 * h + 60 * m <= seconds
                        /\ seconds < 3600 * h + 60 * m + 60
                  /\ seconds = 61 => resp.duracion_jornada = <<0, "h ", 1, "m">>
                  /\ seconds = 59 => resp.duracion_jornada = <<0, "h ", 0, "m">>

\* A record closed 61 s after its entry has been rendered.
C39_Witness ==
    /\ last.op = "render"
    /\ registros_escaneo[last.arg].hora_salida
          - registros_escaneo[last.arg].hora_entrada = 61

\* The placeholder payload of a row between its two commits, and the
\* payload that encodes the id q.
Placeholder == TempQr(None).qr_code_base64

PayloadOfId(q) == [tag |-> "qr", data |-> q]

\* C40: a code is created in two commits.  The row is inserted with the
\* placeholder payload; the request that inserted it returns CREATED only
\* with the commit that stores the payload rendered from the row's own id;
\* and a payload that has been stored is never replaced, so no row carries
\* the placeholder after its update commit.
C40_TwoPhasePayload ==
    [][/\ \A q \in DOMAIN qr_codes' \ DOMAIN qr_codes :
             qr_codes'[q].qr_code_base64 = Placeholder
       /\ \A q \in DOMAIN qr_codes \cap DOMAIN qr_codes' :
             qr_codes'[q].qr_code_base64 # qr_codes[q].qr_code_base64 =>
                /\ qr_codes[q].qr_code_base64 = Placeholder
                /\ qr_codes'[q].qr_code_base64 = PayloadOfId(q)
                /\ qr_codes'[q].qr_code_base64 # Placeholder
                /\ last'.status = "CREATED" /\ last'.ret = {q}
       /\ (last' # last /\ last'.status = "CREATED") =>
             \E q \in DOMAIN qr_codes' :
                /\ last'.ret = {q}
                /\ qr_codes'[q].empleado_id = last'.arg
                /\ qr_codes[q].qr_code_base64 = Placeholder
                /\ qr_codes'[q].qr_code_base64 = PayloadOfId(q)]_vars

\* A request has returned CREATED for a code that carries the payload of
\* its own id while the row of another request still carries the
\* placeholder.
C40_Witness ==
    /\ last.status = "CREATED"
    /\ \E q \in last.ret, x \in DOMAIN qr_codes :
          /\ qr_codes[q].qr_code_base64 = PayloadOfId(q)
          /\ x # q
          /\ qr_codes[x].qr_code_base64 = Placeholder

====
